---- MODULE Spec2Model ----
(***************************************************************************)
(* A model of basicsr/models/video_base_model.py: VideoBaseModel.          *)
(*                                                                         *)
(* One worker process per rank runs dist_validation on its own model       *)
(* object.  The dataset is sharded round-robin, every worker accumulates   *)
(* metric scores in its local table self.metric_results, the tables are    *)
(* sum-reduced to rank 0, the group meets at a barrier and rank 0 reports. *)
(*                                                                         *)
(* Scores are integers and averages are exact rationals <<num, den>> in    *)
(* lowest terms, where the program uses float32 tensors and Python floats. *)
(* Sequences are 1-based: dataset index i of the program is element i + 1, *)
(* row frame_idx of a tensor is row frame_idx + 1, metric position k of    *)
(* the program is column k + 1.                                            *)
(***************************************************************************)
EXTENDS Integers, Sequences, FiniteSets, TLC

\* Bounds of the model.
MaxWorld == 2
MaxLen == 3
MaxMetrics == 2
MaxPasses == 2

Procs == 0 .. (MaxWorld - 1)

VARIABLES
    world_size,      \* dist.get_world_size(), fixed for the process group
    with_metrics,    \* line 23: self.opt['val']['metrics'] is not None
    metrics,         \* the metric kinds of self.opt['val']['metrics'] in order; <<>> for
                     \* None and for a mapping with no metric
    is_train,        \* self.opt['is_train']
    calls,           \* number of validation passes started by the caller
    dataset,         \* dataloader.dataset of the current pass
    save_img,        \* argument save_img of the current pass
    current_iter,    \* argument current_iter of the current pass
    pc,              \* per worker: where it is in the current call
    exc,             \* per worker: the exception that ended its call, or NoExc
    idx,             \* per worker: loop variable idx of line 46
    red,             \* per worker: number of dist.reduce calls made in this pass
    metric_results,  \* per worker: self.metric_results
    sent,            \* per worker: the tensors it handed to dist.reduce in this pass, in order
    arrived,         \* workers that have called dist.barrier in this pass
    visited,         \* per worker: the dataset indices its loop body ran for in this pass, in order
    saved,           \* per worker: the dataset indices whose image it wrote in this pass, in order
    pbar,            \* rank 0's progress bar: its length, the updates made, the last text
    log,             \* per worker: log records emitted in this pass
    tb,              \* per worker: tb_logger.add_scalar events emitted in this pass
    tb_logger        \* whether argument tb_logger of the current pass was a sink, once read

vars == <<world_size, with_metrics, metrics, is_train, calls, dataset, save_img, current_iter,
          pc, exc, idx, red, metric_results, sent, arrived, visited, saved,
          pbar, log, tb, tb_logger>>

Ranks == 0 .. (world_size - 1)

(***************************************************************************)
(* Exact rationals.                                                        *)
(***************************************************************************)
GCD[a \in Nat, b \in Nat] == IF b = 0 THEN a ELSE GCD[b, a % b]

RatOf[n \in Nat, d \in Nat] == <<n \div GCD[n, d], d \div GCD[n, d]>>

Rat(n, d) == RatOf[n, d]

RatAdd(x, y) == RatOf[x[1] * y[2] + y[1] * x[2], x[2] * y[2]]

RatDiv(x, n) == RatOf[x[1], x[2] * n]

(***************************************************************************)
(* Datasets.  An item carries its folder, the two parts of its             *)
(* "frame_idx/max_idx" string, whether it has a 'gt' entry and whether the *)
(* frame_idx part of the string is a decimal number.                       *)
(***************************************************************************)
Folders == <<"clipA", "clipB">>

FolderOfIndex(i) == IF i < 2 THEN Folders[1] ELSE Folders[2]

FramesIn(L, f) == Cardinality({i \in 0 .. (L - 1) : FolderOfIndex(i) = f})

MakeDataset(L) ==
    [p \in 1 .. L |->
        LET f == FolderOfIndex(p - 1)
        IN  [folder    |-> f,
             frame_idx |-> IF f = Folders[1] THEN p - 1 ELSE p - 3,
             max_idx   |-> FramesIn(L, f),
             has_gt    |-> TRUE,
             idx_ok    |-> TRUE]]

\* A test set without ground truth: no item has a 'gt' entry.
WithoutGt(ds) == [p \in DOMAIN ds |-> [ds[p] EXCEPT !.has_gt = FALSE]]

\* A dataset whose last item has an 'idx' string that int() cannot parse.
WithBadIdx(ds) ==
    [p \in DOMAIN ds |-> IF p = Len(ds) THEN [ds[p] EXCEPT !.idx_ok = FALSE] ELSE ds[p]]

Datasets ==
    UNION {{MakeDataset(L), WithoutGt(MakeDataset(L)), WithBadIdx(MakeDataset(L))} :
              L \in 0 .. MaxLen}

\* dataset.data_info['folder']
data_info_folder(ds) == [p \in 1 .. Len(ds) |-> ds[p].folder]

(***************************************************************************)
(* The results table: a dict from folder to a (num_frame x len(metrics))   *)
(* tensor.  keys is the dict's insertion order, tab its values.            *)
(***************************************************************************)
NoAttr == [exists |-> FALSE, keys |-> <<>>, tab |-> <<>>]

\* Counter(...).items(): the distinct elements in order of first occurrence.
RECURSIVE CounterKeys(_)
CounterKeys(lst) ==
    IF lst = <<>> THEN <<>>
    ELSE LET front == CounterKeys(SubSeq(lst, 1, Len(lst) - 1))
             last  == lst[Len(lst)]
         IN  IF \E p \in 1 .. Len(front) : front[p] = last
             THEN front ELSE Append(front, last)

CounterCount(lst, x) == Cardinality({p \in 1 .. Len(lst) : lst[p] = x})

\* torch.zeros(num_frame, num_metrics)
zeros(num_frame, num_metrics) ==
    [i \in 1 .. num_frame |-> [k \in 1 .. num_metrics |-> 0]]

\* A table that is rebuilt from the dataset on every call with metrics.
InitMetricResultsEveryCall(mr, ds, mets, wm) ==
    IF wm
    THEN LET lst  == data_info_folder(ds)
             keys == CounterKeys(lst)
         IN  [exists |-> TRUE,
              keys   |-> keys,
              tab    |-> [f \in {keys[p] : p \in 1 .. Len(keys)} |->
                             zeros(CounterCount(lst, f), Len(mets))]]
    ELSE mr

\* Lines 29-37: the table is built on the first call with metrics only.  wm is
\* with_metrics; a mapping with no metric gives tensors with no column.
InitMetricResults(mr, ds, mets, wm) ==
    IF wm /\ ~mr.exists
    THEN LET lst  == data_info_folder(ds)
             keys == CounterKeys(lst)
         IN  [exists |-> TRUE,
              keys   |-> keys,
              tab    |-> [f \in {keys[p] : p \in 1 .. Len(keys)} |->
                             zeros(CounterCount(lst, f), Len(mets))]]
    ELSE mr

\* A reset that leaves the tensor as it is.
zero_skipped(tensor) == tensor

\* tensor.zero_()
zero_(tensor) == [i \in DOMAIN tensor |-> [k \in DOMAIN tensor[i] |-> 0]]

\* Lines 41-42: every folder's tensor is zeroed in place.
ZeroAll(mr) == [mr EXCEPT !.tab = [f \in DOMAIN mr.tab |-> zero_(mr.tab[f])]]

(***************************************************************************)
(* The per-item step, lines 47-104.                                        *)
(***************************************************************************)
NoExc == "none"
AttributeError == "AttributeError: metric_results"
SaveImgError == "NotImplementedError: saving image is not supported during training."
NondistError == "NotImplementedError: nondist_validation is not implemented."
GtKeyError == "KeyError: gt"
KeyError == "KeyError: folder"
ValueError == "ValueError: frame_idx"
IndexError == "IndexError: frame_idx"
ZeroDivisionError == "ZeroDivisionError"

\* Line 95: the scalar of the metric of the given kind for an item.  The metric
\* functions are external; kind 1 scores frame_idx + 1, even kinds score a constant.
calculate_metric(kind, item) ==
    IF kind % 2 = 1 THEN kind * (item.frame_idx + 1) ELSE kind

\* An accumulation that adds the item's scores to every row of the tensor.
AddMetricsAllRows(tensor, item, mets) ==
    [i \in DOMAIN tensor |->
        [k \in DOMAIN tensor[i] |-> tensor[i][k] + calculate_metric(mets[k], item)]]

\* Lines 93-98: metric position k is written to column k of row frame_idx.
AddMetrics(tensor, item, mets) ==
    [tensor EXCEPT ![item.frame_idx + 1] =
        [k \in DOMAIN @ |->
            IF k \in 1 .. Len(mets) THEN @[k] + calculate_metric(mets[k], item)
            ELSE @[k]]]

\* The exception the metric accumulation of an item raises, if any (line 97):
\* the folder is looked up, then int(frame_idx) is evaluated, then the row is
\* indexed.
MetricExc(mr, item, mets) ==
    IF ~(item.folder \in DOMAIN mr.tab) THEN KeyError
    ELSE IF ~item.idx_ok THEN ValueError
    ELSE IF item.frame_idx + 1 > Len(mr.tab[item.folder]) THEN IndexError
    ELSE NoExc

\* Lines 47-98 for one item: the exception raised (or NoExc), whether the image
\* was written, and the table afterwards.  Line 49 indexes val_data['gt'] before
\* anything else is done with the item.  With no metric to enumerate (None, or
\* a mapping with no metric) lines 90-98 accumulate nothing and raise nothing.
ItemEffect(mr, item, mets, save, train) ==
    IF ~item.has_gt
    THEN [exc |-> GtKeyError, wrote |-> FALSE, mr |-> mr]
    ELSE IF save /\ train
    THEN [exc |-> SaveImgError, wrote |-> FALSE, mr |-> mr]
    ELSE IF mets = <<>>
    THEN [exc |-> NoExc, wrote |-> save, mr |-> mr]
    ELSE IF MetricExc(mr, item, mets) # NoExc
    THEN [exc |-> MetricExc(mr, item, mets), wrote |-> save, mr |-> mr]
    ELSE [exc |-> NoExc, wrote |-> save,
          mr  |-> [mr EXCEPT !.tab[item.folder] = AddMetrics(@, item, mets)]]

\* The progress bar of rank 0: the task number it was created with, the number
\* of update calls made on it, and the text of the last one as
\* <<folder, position, max_idx>>.
NoBar == [total |-> 0, done |-> 0, text |-> <<>>]

\* Line 45: ProgressBar(len(dataset))
ProgressBar(task_num) == [total |-> task_num, done |-> 0, text |-> <<>>]

\* Line 104: the text f'Test {folder} - {int(frame_idx) + world_size}/{max_idx}'
PbarText(item, n) == <<item.folder, item.frame_idx + n, item.max_idx>>

\* Line 104: int(frame_idx) raises on a string that is not a number.
PbarExc(item) == IF item.idx_ok THEN NoExc ELSE ValueError

\* pbar.update(text)
pbar_update(pb, text) == [pb EXCEPT !.done = @ + 1, !.text = text]

\* A single update per item.
UpdateOnce(pb, text, n) == pbar_update(pb, text)

\* Lines 102-104: for _ in range(world_size): pbar.update(text)
RECURSIVE UpdateTimes(_, _, _)
UpdateTimes(pb, text, n) ==
    IF n = 0 THEN pb ELSE pbar_update(UpdateTimes(pb, text, n - 1), text)

\* A loop that steps by one instead of by world_size.
NextIdxStepOne(i, n) == i + 1

\* Line 46: the index after i in range(rank, len(dataset), world_size).
NextIdx(i, n) == i + n

(***************************************************************************)
(* The collectives and the report.                                         *)
(***************************************************************************)
\* Elementwise sum of two tensors of the same shape.
TensorAdd(a, b) == [i \in DOMAIN a |-> [k \in DOMAIN a[i] |-> a[i][k] + b[i][k]]]

\* A reduction that keeps rank 0's own tensor and drops the peers' tensors.
ReduceSumOwnOnly(own, snt, k, qs) == own

\* Elementwise sum of own and the k-th tensor handed in by each worker of qs.
RECURSIVE ReduceSum(_, _, _, _)
ReduceSum(own, snt, k, qs) ==
    IF qs = {} THEN own
    ELSE LET q == CHOOSE x \in qs : TRUE
         IN  ReduceSum(TensorAdd(own, snt[q][k]), snt, k, qs \ {q})

\* Where a worker goes when its loop is over (lines 106-110): nowhere when
\* with_metrics (wm) is false, to the barrier when the table has no folder, else
\* to the first reduce.
AfterLoop(mr, wm) ==
    IF ~wm THEN "returned"
    ELSE IF Len(mr.keys) = 0 THEN "barrier" ELSE "reduce"

\* Line 46: whether the loop body runs for index i.
InRange(i, ds) == i < Len(ds)

\* torch.mean(tensor, dim=0), column k
Mean(tensor, k) ==
    LET RECURSIVE ColSum(_)
        ColSum(n) == IF n = 0 THEN 0 ELSE ColSum(n - 1) + tensor[n][k]
    IN  Rat(ColSum(Len(tensor)), Len(tensor))

\* Lines 127-130
metric_results_avg(mr) ==
    [f \in DOMAIN mr.tab |-> [k \in DOMAIN mr.tab[f][1] |-> Mean(mr.tab[f], k)]]

\* Column k summed over every row of every folder, over the number of rows.
WeightedMean(mr, k) ==
    LET RECURSIVE ColSum(_, _)
        ColSum(f, n) == IF n = 0 THEN 0 ELSE ColSum(f, n - 1) + mr.tab[f][n][k]
        RECURSIVE Sums(_)
        Sums(n) == IF n = 0 THEN <<0, 0>>
                   ELSE LET f == mr.keys[n]
                        IN  <<Sums(n - 1)[1] + ColSum(f, Len(mr.tab[f])),
                              Sums(n - 1)[2] + Len(mr.tab[f])>>
    IN  Rat(Sums(Len(mr.keys))[1], Sums(Len(mr.keys))[2])

\* A global average that weights every folder by its frame count.
total_avg_weighted(mr, mets) == [k \in 1 .. Len(mets) |-> WeightedMean(mr, k)]

\* Lines 135-145: per metric, the sum of the folder averages over the number of folders.
total_avg_results(mr, mets) ==
    LET avg == metric_results_avg(mr)
        RECURSIVE FolderSum(_, _)
        FolderSum(n, k) ==
            IF n = 0 THEN <<0, 1>> ELSE RatAdd(FolderSum(n - 1, k), avg[mr.keys[n]][k])
    IN  [k \in 1 .. Len(mets) |-> RatDiv(FolderSum(Len(mr.keys), k), Len(mr.keys))]

\* Lines 147-156: the log line, as the values it prints.
LogRecord(mr, mets) ==
    [total   |-> total_avg_results(mr, mets),
     folders |-> [k \in 1 .. Len(mets) |->
                    [n \in 1 .. Len(mr.keys) |->
                        <<mr.keys[n], metric_results_avg(mr)[mr.keys[n]][k]>>]]]

\* A report that sends the totals to the sink and leaves the folders out.
TbEventsTotalsOnly(mr, mets, iter) ==
    [k \in 1 .. Len(mets) |->
        [metric |-> mets[k], folder |-> "",
         value |-> total_avg_results(mr, mets)[k], step |-> iter]]

\* Lines 157-164: per metric one event for the total, then one per folder.
TbEvents(mr, mets, iter) ==
    LET F == Len(mr.keys)
    IN  [p \in 1 .. (Len(mets) * (1 + F)) |->
            LET k == ((p - 1) \div (1 + F)) + 1
                n == (p - 1) % (1 + F)
            IN  IF n = 0
                THEN [metric |-> mets[k], folder |-> "",
                      value |-> total_avg_results(mr, mets)[k], step |-> iter]
                ELSE [metric |-> mets[k], folder |-> mr.keys[n],
                      value |-> metric_results_avg(mr)[mr.keys[n]][k], step |-> iter]]

(***************************************************************************)
(* Initial state: the process group and the models' options are fixed at   *)
(* construction; no model object has a results table yet.                  *)
(***************************************************************************)
\* The mappings opt['val']['metrics'] can be when it is not None: m metrics of
\* kinds 1 .. m, m = 0 being the empty mapping.
MetricsOptions == {[k \in 1 .. m |-> k] : m \in 0 .. MaxMetrics}

Init ==
    /\ world_size \in 1 .. MaxWorld
    /\ with_metrics \in BOOLEAN
    /\ metrics \in IF with_metrics THEN MetricsOptions ELSE {<<>>}
    /\ is_train \in BOOLEAN
    /\ calls = 0
    /\ dataset = <<>>
    /\ save_img = FALSE
    /\ current_iter = 0
    /\ pc = [r \in Procs |-> "idle"]
    /\ exc = [r \in Procs |-> NoExc]
    /\ idx = [r \in Procs |-> 0]
    /\ red = [r \in Procs |-> 0]
    /\ metric_results = [r \in Procs |-> NoAttr]
    /\ sent = [r \in Procs |-> <<>>]
    /\ arrived = {}
    /\ visited = [r \in Procs |-> <<>>]
    /\ saved = [r \in Procs |-> <<>>]
    /\ pbar = NoBar
    /\ log = [r \in Procs |-> <<>>]
    /\ tb = [r \in Procs |-> <<>>]
    /\ tb_logger = FALSE

(***************************************************************************)
(* The caller starts a validation pass on every worker with the same       *)
(* arguments, once every worker is back from the previous one.             *)
(***************************************************************************)
StartPass ==
    /\ calls < MaxPasses
    /\ \A r \in Ranks : pc[r] \in {"idle", "returned"}
    /\ calls' = calls + 1
    /\ current_iter' = calls + 1
    /\ dataset' \in Datasets
    /\ save_img' \in BOOLEAN
    /\ pc' = [r \in Procs |-> IF r \in Ranks THEN "called" ELSE pc[r]]
    /\ idx' = [r \in Procs |-> 0]
    /\ red' = [r \in Procs |-> 0]
    /\ sent' = [r \in Procs |-> <<>>]
    /\ arrived' = {}
    /\ visited' = [r \in Procs |-> <<>>]
    /\ saved' = [r \in Procs |-> <<>>]
    /\ log' = [r \in Procs |-> <<>>]
    /\ tb' = [r \in Procs |-> <<>>]
    /\ tb_logger' = FALSE
    /\ UNCHANGED <<world_size, with_metrics, metrics, is_train, exc, metric_results, pbar>>

\* Lines 21-46: lazy creation of the table, zeroing, progress bar, loop entry.
Enter(r) ==
    /\ pc[r] = "called"
    /\ LET mr == InitMetricResults(metric_results[r], dataset, metrics, with_metrics)
       IN  IF ~mr.exists
           THEN /\ pc' = [pc EXCEPT ![r] = "raised"]
                /\ exc' = [exc EXCEPT ![r] = AttributeError]
                /\ UNCHANGED <<metric_results, pbar, idx, arrived>>
           ELSE LET next == IF InRange(r, dataset) THEN "loop"
                            ELSE AfterLoop(mr, with_metrics)
                IN  /\ metric_results' = [metric_results EXCEPT ![r] = ZeroAll(mr)]
                    /\ pbar' = IF r = 0 THEN ProgressBar(Len(dataset)) ELSE pbar
                    /\ idx' = [idx EXCEPT ![r] = r]
                    /\ pc' = [pc EXCEPT ![r] = next]
                    /\ arrived' = IF next = "barrier" THEN arrived \cup {r} ELSE arrived
                    /\ UNCHANGED exc
    /\ UNCHANGED <<world_size, with_metrics, metrics, is_train, calls, dataset, save_img,
                   current_iter, red, sent, visited, saved, log, tb, tb_logger>>

\* Lines 47-104: one iteration of the loop.
ProcessItem(r) ==
    /\ pc[r] = "loop"
    /\ LET item == dataset[idx[r] + 1]
           eff  == ItemEffect(metric_results[r], item, metrics, save_img, is_train)
           nidx == NextIdx(idx[r], world_size)
           next == IF InRange(nidx, dataset) THEN "loop"
                   ELSE AfterLoop(eff.mr, with_metrics)
           err  == IF eff.exc = NoExc /\ r = 0 THEN PbarExc(item) ELSE eff.exc
       IN  /\ visited' = [visited EXCEPT ![r] = Append(@, idx[r])]
           /\ saved' = [saved EXCEPT ![r] = IF eff.wrote THEN Append(@, idx[r]) ELSE @]
           /\ metric_results' = [metric_results EXCEPT ![r] = eff.mr]
           /\ IF err # NoExc
              THEN /\ pc' = [pc EXCEPT ![r] = "raised"]
                   /\ exc' = [exc EXCEPT ![r] = err]
                   /\ UNCHANGED <<idx, pbar, arrived>>
              ELSE /\ pc' = [pc EXCEPT ![r] = next]
                   /\ idx' = [idx EXCEPT ![r] = nidx]
                   /\ pbar' = IF r = 0
                              THEN UpdateTimes(pbar, PbarText(item, world_size), world_size)
                              ELSE pbar
                   /\ arrived' = IF next = "barrier" THEN arrived \cup {r} ELSE arrived
                   /\ UNCHANGED exc
    /\ UNCHANGED <<world_size, with_metrics, metrics, is_train, calls, dataset, save_img,
                   current_iter, red, sent, log, tb, tb_logger>>

\* Lines 108-110 on a worker other than rank 0: it hands the next folder's tensor
\* to the reduction and goes on.  What its own tensor holds afterwards is not
\* specified: it is left alone or holds the sum with what its peers handed in.
ReduceSend(r) ==
    /\ r # 0
    /\ pc[r] = "reduce"
    /\ LET mr == metric_results[r]
           k  == red[r] + 1
           f  == mr.keys[k]
           peers == {q \in Ranks \ {0, r} : Len(sent[q]) >= k}
       IN  /\ sent' = [sent EXCEPT ![r] = Append(@, mr.tab[f])]
           /\ red' = [red EXCEPT ![r] = k]
           /\ \E t \in {mr.tab[f], ReduceSum(mr.tab[f], sent, k, peers)} :
                 metric_results' = [metric_results EXCEPT ![r].tab[f] = t]
           /\ pc' = [pc EXCEPT ![r] = IF k = Len(mr.keys) THEN "barrier" ELSE "reduce"]
           /\ arrived' = IF k = Len(mr.keys) THEN arrived \cup {r} ELSE arrived
    /\ UNCHANGED <<world_size, with_metrics, metrics, is_train, calls, dataset, save_img,
                   current_iter, exc, idx, visited, saved, pbar, log, tb, tb_logger>>

\* Lines 108-110 on rank 0: the reduction of a folder completes when every peer
\* has handed in its tensor for it; rank 0's tensor then holds the sum.
ReduceRoot ==
    /\ pc[0] = "reduce"
    /\ LET mr == metric_results[0]
           k  == red[0] + 1
           f  == mr.keys[k]
       IN  /\ \A q \in Ranks \ {0} : Len(sent[q]) >= k
           /\ metric_results' = [metric_results EXCEPT
                                    ![0].tab[f] = ReduceSum(@, sent, k, Ranks \ {0})]
           /\ red' = [red EXCEPT ![0] = k]
           /\ pc' = [pc EXCEPT ![0] = IF k = Len(mr.keys) THEN "barrier" ELSE "reduce"]
           /\ arrived' = IF k = Len(mr.keys) THEN arrived \cup {0} ELSE arrived
    /\ UNCHANGED <<world_size, with_metrics, metrics, is_train, calls, dataset, save_img,
                   current_iter, exc, idx, sent, visited, saved, pbar, log, tb, tb_logger>>

\* A barrier that lets every caller through at once.
BarrierNeverWaits(arr, ranks) == TRUE

\* A barrier that stops waiting for the workers whose call has raised.
BarrierSkipsFailed(arr, ranks) == arr = {q \in ranks : pc[q] # "raised"}

\* Whether the barrier lets a worker through: every worker of the group has called it.
BarrierOpen(arr, ranks) == arr = ranks

\* A pass in which every worker reports after the barrier.
AfterBarrierAllReport(r) == "log"

\* Line 112: after the barrier rank 0 reports, the others return.
AfterBarrier(r) == IF r = 0 THEN "log" ELSE "returned"

\* Lines 110-112: a worker leaves the barrier.
Barrier(r) ==
    /\ pc[r] = "barrier"
    /\ BarrierOpen(arrived, Ranks)
    /\ pc' = [pc EXCEPT ![r] = AfterBarrier(r)]
    /\ UNCHANGED <<world_size, with_metrics, metrics, is_train, calls, dataset, save_img,
                   current_iter, exc, idx, red, metric_results, sent, arrived,
                   visited, saved, pbar, log, tb, tb_logger>>

\* Lines 113-114 and 120-164: _log_validation_metric_values.  The division of
\* line 145 runs once per metric and raises when the table has no folder.  tb_logger is read here only,
\* so the argument's value is drawn and recorded here.
LogValidation(r) ==
    /\ pc[r] = "log"
    /\ LET mr == metric_results[r]
       IN  IF Len(mr.keys) = 0 /\ Len(metrics) > 0
           THEN /\ pc' = [pc EXCEPT ![r] = "raised"]
                /\ exc' = [exc EXCEPT ![r] = ZeroDivisionError]
                /\ UNCHANGED <<log, tb, tb_logger>>
           ELSE /\ log' = [log EXCEPT ![r] = Append(@, LogRecord(mr, metrics))]
                /\ tb_logger' \in BOOLEAN
                /\ tb' = [tb EXCEPT ![r] = IF tb_logger'
                                           THEN @ \o TbEvents(mr, metrics, current_iter)
                                           ELSE @]
                /\ pc' = [pc EXCEPT ![r] = "returned"]
                /\ UNCHANGED exc
    /\ UNCHANGED <<world_size, with_metrics, metrics, is_train, calls, dataset, save_img,
                   current_iter, idx, red, metric_results, sent, arrived,
                   visited, saved, pbar>>

\* A nondist_validation that drops the results table before it raises.
nondist_validation_resets(r) ==
    /\ pc[r] \in {"idle", "returned"}
    /\ pc' = [pc EXCEPT ![r] = "raised"]
    /\ exc' = [exc EXCEPT ![r] = NondistError]
    /\ metric_results' = [metric_results EXCEPT ![r] = NoAttr]
    /\ UNCHANGED <<world_size, with_metrics, metrics, is_train, calls, dataset, save_img,
                   current_iter, idx, red, sent, arrived,
                   visited, saved, pbar, log, tb, tb_logger>>

\* Lines 116-118: nondist_validation raises whatever it is given.
nondist_validation(r) ==
    /\ pc[r] \in {"idle", "returned"}
    /\ pc' = [pc EXCEPT ![r] = "raised"]
    /\ exc' = [exc EXCEPT ![r] = NondistError]
    /\ UNCHANGED <<world_size, with_metrics, metrics, is_train, calls, dataset, save_img,
                   current_iter, idx, red, metric_results, sent, arrived,
                   visited, saved, pbar, log, tb, tb_logger>>

Next ==
    \/ StartPass
    \/ \E r \in Ranks : Enter(r)
    \/ \E r \in Ranks : ProcessItem(r)
    \/ \E r \in Ranks : ReduceSend(r)
    \/ ReduceRoot
    \/ \E r \in Ranks : Barrier(r)
    \/ \E r \in Ranks : LogValidation(r)
    \/ \E r \in Ranks : nondist_validation(r)

Spec == Init /\ [][Next]_vars

\* A step of a worker inside dist_validation.
WorkerStep ==
    \/ \E r \in Ranks : Enter(r) \/ ProcessItem(r) \/ ReduceSend(r)
                            \/ Barrier(r) \/ LogValidation(r)
    \/ ReduceRoot

\* The worker processes keep running: while some worker can take a step of its
\* call, one does.  The caller need not call again.
FairSpec == Spec /\ WF_vars(WorkerStep)

(***************************************************************************)
(* Properties.                                                             *)
(***************************************************************************)
Range(seq) == {seq[p] : p \in 1 .. Len(seq)}

NoDuplicates(seq) == \A p, q \in 1 .. Len(seq) : p # q => seq[p] # seq[q]

\* The worker's loop of the current pass is over and it did not raise in it.
LoopOver(r) == pc[r] \in {"reduce", "barrier", "log", "returned"}
               \/ (pc[r] = "raised" /\ exc[r] = ZeroDivisionError)

\* Rank 0 has completed the reduction of every folder in the current pass.
RootReduced ==
    /\ LoopOver(0)
    /\ pc[0] # "reduce"
    /\ with_metrics

AllZero(mr) ==
    \A f \in DOMAIN mr.tab : \A i \in DOMAIN mr.tab[f] :
        \A k \in DOMAIN mr.tab[f][i] : mr.tab[f][i][k] = 0

\* The table one worker alone builds from a zeroed table by running the loop
\* body for the items 1 .. n of the dataset in order.
RECURSIVE RunAlone(_, _, _, _)
RunAlone(mr, ds, mets, n) ==
    IF n = 0 THEN ZeroAll(mr)
    ELSE ItemEffect(RunAlone(mr, ds, mets, n - 1), ds[n], mets, FALSE, FALSE).mr

\* C1: the index sequences visited by the loops of ranks 0..N-1 hold no index
\* twice, are pairwise disjoint, hold only indices rank, rank+N, ... below the
\* dataset length, and once every loop is over their union is 0 .. L-1.
C1_ShardsPartitionDataset ==
    /\ \A r \in Ranks :
          /\ NoDuplicates(visited[r])
          /\ Range(visited[r]) \subseteq
                {i \in 0 .. (Len(dataset) - 1) : i % world_size = r}
    /\ \A r, q \in Ranks : r # q => Range(visited[r]) \cap Range(visited[q]) = {}
    /\ (\A r \in Ranks : LoopOver(r)) =>
          UNION {Range(visited[r]) : r \in Ranks} = 0 .. (Len(dataset) - 1)

C1_Witness ==
    /\ world_size = 2
    /\ Len(dataset) = 3
    /\ \A r \in Ranks : pc[r] = "returned"
    /\ visited[0] = <<0, 2>>
    /\ visited[1] = <<1>>

\* C2: once rank 0 has reduced every folder, its table equals the table a
\* single worker builds by processing the whole dataset in order, whatever the
\* world size and the interleaving of the workers' steps.
C2_ReducedEqualsSingleWorker ==
    RootReduced =>
        metric_results[0] = RunAlone(metric_results[0], dataset, metrics, Len(dataset))

C2_Witness ==
    /\ world_size = 2
    /\ Len(dataset) = 3
    /\ pc[0] = "returned"
    /\ \A r \in Ranks : visited[r] # <<>>
    /\ ~AllZero(metric_results[0])

\* C3: in a second or later pass every worker's table is all zeros until the
\* worker accumulates its first item of the pass, and the table rank 0 holds
\* after the reduction is the one built from a zeroed table by this pass alone.
C3_NoLeakBetweenPasses ==
    calls >= 2 =>
        /\ \A r \in Ranks :
              (pc[r] \in {"loop", "reduce"} /\ visited[r] = <<>> /\ red[r] = 0)
                  => AllZero(metric_results[r])
        /\ RootReduced =>
              metric_results[0] =
                  RunAlone(metric_results[0], dataset, metrics, Len(dataset))

C3_Witness ==
    /\ calls = 2
    /\ world_size >= 2
    /\ pc[0] = "returned"
    /\ Len(dataset) = 3
    /\ ~AllZero(metric_results[0])
    /\ \E r \in Ranks \ {0} : ~AllZero(metric_results[r])

\* The sum of the folder averages a log record prints for metric position k.
RECURSIVE PrintedSum(_, _, _)
PrintedSum(rec, k, n) ==
    IF n = 0 THEN <<0, 1>>
    ELSE RatAdd(PrintedSum(rec, k, n - 1), rec.folders[k][n][2])

\* Each log record's global average is the sum of its folder averages over the
\* number of folders.
UnweightedTotals ==
    \A r \in Ranks : \A p \in 1 .. Len(log[r]) :
        LET rec == log[r][p]
            F   == Len(metric_results[r].keys)
        IN  \A k \in 1 .. Len(metrics) :
                rec.total[k] = RatDiv(PrintedSum(rec, k, F), F)

UnequalCounts(mr) ==
    \E f, g \in DOMAIN mr.tab : Len(mr.tab[f]) # Len(mr.tab[g])

\* C4 as stated: the global average is the unweighted mean of the folder
\* averages, and with unequal frame counts it differs from the weighted mean.
C4_DiffersFromWeighted ==
    /\ UnweightedTotals
    /\ \A r \in Ranks : \A p \in 1 .. Len(log[r]) :
          UnequalCounts(metric_results[r]) =>
              \A k \in 1 .. Len(metrics) :
                  log[r][p].total[k] # WeightedMean(metric_results[r], k)

\* C4, amended: the global average is the unweighted mean of the folder
\* averages; with two folders of unequal frame counts it differs from the
\* weighted mean exactly when the two folders' averages differ.
C4_UnweightedMeanOfFolders ==
    /\ UnweightedTotals
    /\ \A r \in Ranks : \A p \in 1 .. Len(log[r]) :
          LET mr  == metric_results[r]
              rec == log[r][p]
          IN  (Len(mr.keys) = 2 /\ UnequalCounts(mr)) =>
                  \A k \in 1 .. Len(metrics) :
                      (rec.total[k] # WeightedMean(mr, k))
                          <=> (rec.folders[k][1][2] # rec.folders[k][2][2])

C4_Witness ==
    /\ Len(metrics) = 2
    /\ Len(log[0]) = 1
    /\ metric_results[0].keys = <<"clipA", "clipB">>
    /\ Len(metric_results[0].tab["clipA"]) = 2
    /\ Len(metric_results[0].tab["clipB"]) = 1
    /\ log[0][1].total[1] = <<5, 4>>
    /\ WeightedMean(metric_results[0], 1) = <<4, 3>>
    /\ log[0][1].total[2] = WeightedMean(metric_results[0], 2)

\* The items of the dataset in a folder, and the mean of a metric over them.
ItemsIn(ds, f) == {p \in 1 .. Len(ds) : ds[p].folder = f}

RECURSIVE ScoreSum(_, _, _)
ScoreSum(ds, kind, ps) ==
    IF ps = {} THEN 0
    ELSE LET p == CHOOSE x \in ps : TRUE
         IN  calculate_metric(kind, ds[p]) + ScoreSum(ds, kind, ps \ {p})

FrameMean(ds, kind, f) ==
    Rat(ScoreSum(ds, kind, ItemsIn(ds, f)), Cardinality(ItemsIn(ds, f)))

\* C5 as stated: every folder average rank 0 reports is the arithmetic mean,
\* over the frames of that folder in the dataset of the pass, of the metric
\* configured at that position.
C5_FolderAverageIsFrameMean ==
    \A p \in 1 .. Len(log[0]) : \A k \in 1 .. Len(metrics) :
        \A n \in 1 .. Len(log[0][p].folders[k]) :
            LET f == log[0][p].folders[k][n][1]
            IN  ItemsIn(dataset, f) # {} =>
                    log[0][p].folders[k][n][2] = FrameMean(dataset, metrics[k], f)

\* The folder averages are the frame means when the table was built from the
\* dataset of the pass: the same folders, with as many rows as frames.
TableMatchesDataset ==
    \A r \in Ranks : metric_results[r].exists =>
        /\ metric_results[r].keys = CounterKeys(data_info_folder(dataset))
        /\ \A f \in DOMAIN metric_results[r].tab :
              Len(metric_results[r].tab[f]) = CounterCount(data_info_folder(dataset), f)

FolderAverageIsFrameMeanOnOwnTable ==
    TableMatchesDataset => C5_FolderAverageIsFrameMean

\* C6 as stated: a call with save_img during training ends on every worker by
\* raising, so that no worker gets past its loop, and it writes no image.
C6_SaveDuringTrainingRaises ==
    (calls >= 1 /\ save_img /\ is_train) =>
        \A r \in Ranks :
            /\ saved[r] = <<>>
            /\ ~LoopOver(r)

\* C7: nondist_validation can be called in every state in which the worker is
\* not inside a call, and a step in which it raises changes nothing but the
\* worker's control state: no table, file, log record or tracking event.
C7_NondistAlwaysRaises ==
    /\ [](\A r \in Ranks : pc[r] \in {"idle", "returned"}
                              => ENABLED nondist_validation(r))
    /\ [][\A r \in Procs :
            (exc'[r] = NondistError /\ exc[r] # NondistError) =>
                /\ pc'[r] = "raised"
                /\ metric_results' = metric_results
                /\ saved' = saved
                /\ log' = log
                /\ tb' = tb
                /\ pbar' = pbar]_vars

C7_Witness ==
    \E r \in Ranks :
        /\ exc[r] = NondistError
        /\ metric_results[r].exists
        /\ ~AllZero(metric_results[r])
        /\ log[0] # <<>>

\* The worker has made every reduce call of the pass and has called the barrier.
AtOrPastBarrier(q) ==
    /\ ~InRange(idx[q], dataset)
    /\ metric_results[q].exists
    /\ red[q] = Len(metric_results[q].keys)
    /\ q \in arrived

\* C8: a worker that is past the barrier (reporting, or back in its caller)
\* implies that every worker of the group has finished its loop, made all its
\* reduce calls and called the barrier.
C8_NoReturnBeforeAllAtBarrier ==
    \A r \in Ranks :
        pc[r] \in {"log", "returned"} => \A q \in Ranks : AtOrPastBarrier(q)

C8_Witness ==
    /\ world_size = 2
    /\ Len(dataset) = 3
    /\ pc[1] = "returned"
    /\ pc[0] = "barrier"

\* The scores worker q accumulated in this pass: the loop body run from a
\* zeroed table over the first n indices it visited.
RECURSIVE RunVisited(_, _, _, _, _)
RunVisited(mr, ds, mets, vis, n) ==
    IF n = 0 THEN ZeroAll(mr)
    ELSE ItemEffect(RunVisited(mr, ds, mets, vis, n - 1),
                    ds[vis[n] + 1], mets, FALSE, FALSE).mr

LocalScores(q) ==
    RunVisited(metric_results[0], dataset, metrics, visited[q], Len(visited[q])).tab

\* The elementwise sum over the workers of qs of their scores for folder f.
RECURSIVE ScoresOfAll(_, _)
ScoresOfAll(qs, f) ==
    LET q == CHOOSE x \in qs : TRUE
    IN  IF qs = {q} THEN LocalScores(q)[f]
        ELSE TensorAdd(LocalScores(q)[f], ScoresOfAll(qs \ {q}, f))

\* C9: only rank 0 reports, at most once per pass, and only when every worker
\* has made all its reduce calls and called the barrier; every cell of the
\* table it reports from is the sum of what all workers accumulated there.
C9_OnlyRootReportsAfterReduction ==
    /\ \A r \in Ranks \ {0} : pc[r] # "log" /\ log[r] = <<>> /\ tb[r] = <<>>
    /\ Len(log[0]) <= 1
    /\ (pc[0] = "log" \/ log[0] # <<>> \/ tb[0] # <<>>) =>
          /\ \A q \in Ranks : AtOrPastBarrier(q)
          /\ \A f \in DOMAIN metric_results[0].tab :
                metric_results[0].tab[f] = ScoresOfAll(Ranks, f)

C9_Witness ==
    /\ world_size = 2
    /\ Len(dataset) = 3
    /\ Len(log[0]) = 1
    /\ tb[0] # <<>>
    /\ \A r \in Ranks : pc[r] = "returned"
    /\ \A r \in Ranks : visited[r] # <<>>

\* The exceptions a per-item step raises.
ItemErrors == {GtKeyError, SaveImgError, KeyError, ValueError, IndexError}

\* C10 as stated: with metrics and no per-item step raising, every worker makes
\* one reduce call per folder in the table's folder order and one barrier call,
\* and every worker gets back from the pass: none leaves it by an exception.
C10_EveryWorkerReturns ==
    (calls >= 1 /\ with_metrics /\ \A q \in Ranks : exc[q] \notin ItemErrors) =>
        \A r \in Ranks :
            /\ red[r] = Len(sent[r]) \/ r = 0
            /\ red[r] <= Len(metric_results[r].keys)
            /\ metric_results[r].exists => metric_results[r].keys = metric_results[0].keys
                                           \/ ~metric_results[0].exists
            /\ r \in arrived => red[r] = Len(metric_results[r].keys)
            /\ pc[r] = "raised" => exc[r] = NondistError

\* With metrics, a table that has a folder and no per-item step raising, every
\* worker of a started pass gets back from it.
PassEndsWhenTableHasFolders ==
    (with_metrics /\ \E r \in Ranks : pc[r] = "called")
        ~> (\/ \A r \in Ranks : pc[r] = "returned" \/ exc[r] = NondistError
            \/ \E q \in Ranks : exc[q] \in ItemErrors
            \/ \E q \in Ranks : metric_results[q].exists
                                 /\ Len(metric_results[q].keys) = 0)

\* Some worker has left its loop of the current pass by a per-item exception.
SomeItemFailed == \E q \in Ranks : exc[q] \in ItemErrors

\* C11: in a pass with metrics and at least two workers, once a worker has left
\* its loop by a per-item exception no worker gets past the barrier: every
\* worker is either one that failed in its loop or is still in its loop, at a
\* reduce call or at the barrier, and so never reports and never returns.
C11_SurvivorsNeverReturn ==
    (with_metrics /\ world_size >= 2 /\ SomeItemFailed) =>
        \A r \in Ranks :
            \/ pc[r] = "raised" /\ exc[r] \in ItemErrors
            \/ pc[r] \in {"called", "loop", "reduce", "barrier"}

C11_Witness ==
    /\ world_size = 2
    /\ exc[1] = ValueError
    /\ pc[0] = "reduce"
    /\ visited[0] # <<>>

\* The shape of a table: its folders in order and, per folder, the number of
\* rows and the number of columns of each row.
Shape(mr) ==
    [keys |-> mr.keys,
     dims |-> [f \in DOMAIN mr.tab |-> [i \in DOMAIN mr.tab[f] |-> Len(mr.tab[f][i])]]]

\* C12: once a worker's table exists, no step of any call removes it, changes
\* its folder keys or changes the shape of a folder's tensor; later calls,
\* whatever their dataset, only change the values of its cells.
C12_TableShapeNeverChanges ==
    [][\A r \in Procs :
          metric_results[r].exists =>
              /\ metric_results'[r].exists
              /\ Shape(metric_results'[r]) = Shape(metric_results[r])]_vars

C12_Witness ==
    /\ calls = 2
    /\ \A r \in Ranks : pc[r] = "returned"
    /\ dataset # <<>>
    /\ metric_results[0].keys # CounterKeys(data_info_folder(dataset))
    /\ ~AllZero(metric_results[0])

\* C13: a step in which worker r's loop body runs for an item (folder F, frame
\* i) leaves every other worker's table alone and, in r's table, adds to each
\* cell of row i of folder F the scalar of the metric configured at that
\* column and changes no other cell; when the body raises, no cell changes.
C13_ItemTouchesOnlyItsRow ==
    [][\A r \in Ranks :
          Len(visited'[r]) = Len(visited[r]) + 1 =>
              LET item == dataset[visited'[r][Len(visited'[r])] + 1]
                  old  == metric_results[r]
                  new  == metric_results'[r]
              IN  /\ \A q \in Procs \ {r} : metric_results'[q] = metric_results[q]
                  /\ Shape(new) = Shape(old)
                  /\ exc'[r] # NoExc => new = old
                  /\ exc'[r] = NoExc =>
                        \A f \in DOMAIN old.tab : \A i \in DOMAIN old.tab[f] :
                            \A k \in DOMAIN old.tab[f][i] :
                                new.tab[f][i][k] =
                                    IF f = item.folder /\ i = item.frame_idx + 1
                                    THEN old.tab[f][i][k] + calculate_metric(metrics[k], item)
                                    ELSE old.tab[f][i][k]]_vars

C13_Witness ==
    /\ world_size = 2
    /\ visited[0] = <<0, 2>>
    /\ pc[0] = "reduce"
    /\ red[0] = 0
    /\ Len(metrics) = 2
    /\ metric_results[0].keys = <<"clipA", "clipB">>
    /\ metric_results[0].tab["clipA"] = <<<<1, 2>>, <<0, 0>>>>
    /\ metric_results[0].tab["clipB"] = <<<<1, 2>>>>

\* The number of events of a sequence for a metric and a folder ("" is the total).
EventCount(evs, m, f) ==
    Cardinality({p \in 1 .. Len(evs) : evs[p].metric = m /\ evs[p].folder = f})

\* C14: a report made with a tracking sink emits, for M metrics and F folders,
\* exactly M + M * F scalar events: one total per metric and one per metric and
\* folder, each with the current training iteration as its step.  A report made
\* with no sink emits no event.  In both cases the log line is emitted, once.
C14_ScalarEventsPerReport ==
    \A r \in Ranks :
        LET M    == Len(metrics)
            keys == metric_results[r].keys
            F    == Len(keys)
        IN  /\ log[r] = <<>> => tb[r] = <<>>
            /\ (log[r] # <<>> /\ ~tb_logger) => tb[r] = <<>>
            /\ (log[r] # <<>> /\ tb_logger) =>
                  /\ Len(tb[r]) = M + M * F
                  /\ \A k \in 1 .. M :
                        /\ EventCount(tb[r], metrics[k], "") = 1
                        /\ \A n \in 1 .. F : EventCount(tb[r], metrics[k], keys[n]) = 1
            /\ \A p \in 1 .. Len(tb[r]) : tb[r][p].step = current_iter
            /\ (r = 0 /\ pc[r] = "returned" /\ with_metrics) => Len(log[r]) = 1

C14_Witness ==
    /\ tb_logger
    /\ pc[0] = "returned"
    /\ Len(metrics) = 2
    /\ Len(metric_results[0].keys) = 2
    /\ Len(tb[0]) = 6
    /\ current_iter = 2
    /\ tb[0][6].step = 2

C14_WitnessNoSink ==
    /\ ~tb_logger
    /\ pc[0] = "returned"
    /\ Len(log[0]) = 1
    /\ tb[0] = <<>>

\* The visited indices whose item got as far as the save block of lines 67-88.
RECURSIVE ReachedSave(_, _)
ReachedSave(vis, ds) ==
    IF vis = <<>> THEN <<>>
    ELSE LET front == ReachedSave(SubSeq(vis, 1, Len(vis) - 1), ds)
             last  == vis[Len(vis)]
         IN  IF ds[last + 1].has_gt THEN Append(front, last) ELSE front

\* C15 as stated: once every worker's call with save_img outside training has
\* ended, each worker has written exactly one image for every index of its
\* shard, which makes one image per index of the dataset; with save_img false
\* no image is written.
C15_OneImagePerIndex ==
    /\ ~save_img => \A r \in Ranks : saved[r] = <<>>
    /\ (calls >= 1 /\ save_img /\ ~is_train
          /\ \A r \in Ranks : pc[r] \in {"returned", "raised"}) =>
          \A r \in Ranks :
              /\ NoDuplicates(saved[r])
              /\ Range(saved[r]) = {i \in 0 .. (Len(dataset) - 1) : i % world_size = r}

\* With save_img outside training a worker has written one image for every
\* index its loop body got to line 88 for, in loop order, also for the index
\* whose metric accumulation then raised (the write comes first); once every
\* loop is over the images written are one per index of the dataset.
ImagesFollowLoop ==
    (save_img /\ ~is_train) =>
        /\ \A r \in Ranks :
              /\ saved[r] = ReachedSave(visited[r], dataset)
              /\ NoDuplicates(saved[r])
        /\ \A r, q \in Ranks : r # q => Range(saved[r]) \cap Range(saved[q]) = {}
        /\ (\A r \in Ranks : LoopOver(r)) =>
              UNION {Range(saved[r]) : r \in Ranks} = 0 .. (Len(dataset) - 1)

\* The dataset indices of worker r's shard.
Shard(r) == {i \in 0 .. (Len(dataset) - 1) : i % world_size = r}

\* C16 as stated: in a pass with no metric requested (None, or a mapping with
\* no metric) that is not a save during training, no worker's call raises at or
\* before an item that has no ground truth, and the loop body raises nothing
\* for such an item.
C16_NoGtNeededWithoutMetrics ==
    (calls >= 1 /\ metrics = <<>> /\ ~(save_img /\ is_train)) =>
        \A r \in Ranks :
            (\E i \in Shard(r) : ~dataset[i + 1].has_gt) =>
                /\ exc[r] \notin {AttributeError, GtKeyError}
                /\ \A i \in Shard(r) :
                      ItemEffect(metric_results[r], dataset[i + 1], metrics,
                                 save_img, is_train).exc = NoExc

\* With metrics, an item that has no ground truth ends the call at line 49,
\* before the image is written and before any score is accumulated.
NoGtStopsBeforeSave ==
    \A r \in Ranks :
        exc[r] = GtKeyError =>
            /\ ~dataset[visited[r][Len(visited[r])] + 1].has_gt
            /\ visited[r][Len(visited[r])] \notin Range(saved[r])

\* C17 as stated: in a pass without metrics on models that have no results
\* table, no worker's call ends by the AttributeError of line 41, no table is
\* created, and no worker makes a reduce call, calls the barrier or reports.
C17_NoMetricsPassCompletes ==
    (calls >= 1 /\ ~with_metrics) =>
        \A r \in Ranks :
            /\ exc[r] # AttributeError
            /\ ~metric_results[r].exists
            /\ red[r] = 0
            /\ r \notin arrived
            /\ log[r] = <<>>
            /\ tb[r] = <<>>

\* Without metrics every call ends at line 41: no loop body runs, no table is
\* created and no collective is called.
NoMetricsPassRaisesAtOnce ==
    (calls >= 1 /\ ~with_metrics) =>
        \A r \in Ranks :
            /\ pc[r] \in {"called", "raised"}
            /\ pc[r] = "raised" => exc[r] = AttributeError
            /\ visited[r] = <<>>
            /\ ~metric_results[r].exists
            /\ red[r] = 0
            /\ r \notin arrived

\* The worker is past lines 29-42 of the current call.
PastZeroing(r) == calls >= 1 /\ pc[r] \in {"loop", "reduce", "barrier", "log", "returned"}

\* C18 as stated: in every call with metrics, the table a worker uses once it
\* is past lines 29-42 has the folders of the call's dataset in order, each
\* with as many rows as the folder has frames, and no item's accumulation ends
\* the call because its folder or its row is missing from the table.
C18_TableMatchesCallDataset ==
    with_metrics =>
        \A r \in Ranks :
            /\ exc[r] \notin {KeyError, IndexError}
            /\ PastZeroing(r) =>
                  /\ metric_results[r].keys = CounterKeys(data_info_folder(dataset))
                  /\ \A f \in DOMAIN metric_results[r].tab :
                        Len(metric_results[r].tab[f])
                            = CounterCount(data_info_folder(dataset), f)

\* In the first call with metrics the table is the one built from that call's
\* dataset, and no item's folder or row is missing from it.
FirstCallTableMatches ==
    (with_metrics /\ calls = 1) =>
        \A r \in Ranks :
            /\ exc[r] \notin {KeyError, IndexError}
            /\ PastZeroing(r) =>
                  /\ metric_results[r].keys = CounterKeys(data_info_folder(dataset))
                  /\ \A f \in DOMAIN metric_results[r].tab :
                        Len(metric_results[r].tab[f])
                            = CounterCount(data_info_folder(dataset), f)

\* Rank 0 has created the progress bar of the current pass.
BarOfThisPass == calls >= 1 /\ pc[0] # "called" /\ exc[0] # AttributeError

\* The number of items rank 0's loop body has run to its end for in this pass.
Completed0 == IF exc[0] \in ItemErrors THEN Len(visited[0]) - 1 ELSE Len(visited[0])

\* The least multiple of n that is not below l, over n.
CeilDiv(l, n) == (l + n - 1) \div n

\* C19 as stated: the number of updates made on the progress bar of the pass
\* is world_size times the number of items rank 0 has processed and is never
\* above the length the bar was created with, and the position shown for an
\* item, frame_idx + world_size, is never above the item's max_idx.
C19_UpdatesWithinLength ==
    BarOfThisPass =>
        /\ pbar.total = Len(dataset)
        /\ pbar.done = world_size * Completed0
        /\ pbar.done <= pbar.total
        /\ pbar.text # <<>> => pbar.text[2] <= pbar.text[3]

\* C19, amended: only rank 0's items move the progress bar, by world_size
\* updates each, so that over a full pass it gets world_size * ceil(L /
\* world_size) updates: the dataset length L when world_size divides L, else
\* more than L by less than world_size.  The position shown for an item,
\* frame_idx + world_size, is above max_idx by at most world_size - 1.
C19_ProgressBarApproximate ==
    BarOfThisPass =>
        /\ pbar.total = Len(dataset)
        /\ pbar.done = world_size * Completed0
        /\ pbar.done < pbar.total + world_size
        /\ LoopOver(0) => pbar.done = world_size * CeilDiv(Len(dataset), world_size)
        /\ (LoopOver(0) /\ Len(dataset) % world_size = 0) => pbar.done = pbar.total
        /\ (LoopOver(0) /\ Len(dataset) % world_size # 0) => pbar.done > pbar.total
        /\ pbar.text # <<>> =>
              /\ pbar.text[2] <= pbar.text[3] + world_size - 1
              /\ pbar.text[2] >= world_size

C19_Witness ==
    /\ world_size = 2
    /\ Len(dataset) = 3
    /\ \A r \in Ranks : pc[r] = "returned"
    /\ visited[0] = <<0, 2>>
    /\ pbar = [total |-> 3, done |-> 4, text |-> <<"clipB", 2, 1>>]

====
